---------------------------- MODULE Spec2Model ----------------------------
(***************************************************************************)
(* MpiDepAnalysis (src/MpiDepAnalysis.cpp): an LLVM module pass that       *)
(* computes the transitive closure of the control dependencies of the      *)
(* calls to two designated functions (MPI send / receive).                 *)
(*                                                                         *)
(* The state is the pass object (SendName, RecvName, BasicDeps, Deps,      *)
(* Worklist), the four STATISTIC counters, the locals of runOnModule and   *)
(* the position inside runOnModule.  The IR the pass reads is a fixed      *)
(* universe of modules, functions, blocks and instructions (the tables     *)
(* below); the pass never changes it.  Assertions are compiled in (the     *)
(* DEBUG output that carries the result exists only in such builds): a     *)
(* failed assertion aborts the process.                                    *)
(***************************************************************************)
EXTENDS Integers, Sequences, FiniteSets, TLC

(***************************************************************************)
(* Bound of the model: invocations of runOnModule on one pass object.      *)
(***************************************************************************)
MaxRuns == 2

(***************************************************************************)
(* IR values.  A value is an instruction, a constant, a basic block, a     *)
(* function or a constant expression (a user that is not an instruction,   *)
(* e.g. a function address in a global initialiser).                       *)
(***************************************************************************)
nullptr == 0

Inst(n) == [tag |-> "inst", id |-> n]
Const(n) == [tag |-> "const", id |-> n]
Block(n) == [tag |-> "block", id |-> n]
Func(n) == [tag |-> "func", id |-> n]
CExpr(n) == [tag |-> "cexpr", id |-> n]

Ins(k, b, o) == [kind |-> k, parent |-> b, ops |-> o]

Range(s) == {s[k] : k \in DOMAIN s}

(***************************************************************************)
(* Function names, F->getName().  Index = function identity.               *)
(***************************************************************************)
FuncTable ==
  << "MPI_Send",                                  \* 1      module 2
     "MPI_Send", "MPI_Send", "MPI_Recv",          \* 2-4    module 3
     "MPI_Send", "MPI_Recv",                      \* 5-6    module 4
     "MPI_Send", "MPI_Recv", "main",              \* 7-9    module 5
     "MPI_Send", "MPI_Recv", "main",              \* 10-12  module 6
     "MPI_Send", "MPI_Recv", "main", "reg",       \* 13-16  module 7
     "MPI_Send", "MPI_Recv", "main", "cfg",       \* 17-20  module 8
     "MPI_Send", "MPI_Recv", "main",              \* 21-23  module 9
     "MPI_Send", "MPI_Recv", "main",              \* 24-26  module 10
     "MPI_Send", "MPI_Recv", "main",              \* 27-29  module 11
     "MPI_Send", "MPI_Recv", "main",              \* 30-32  module 12
     "MPI_Send", "MPI_Recv", "main",              \* 33-35  module 13
     "MPI_Send", "MPI_Recv", "main", "aux",       \* 36-39  module 14
     "MPI_Send", "MPI_Recv", "main",              \* 40-42  modules 15, 16
     "helper" >>                                  \* 43     module 16

(***************************************************************************)
(* Modules: the functions of each module in Module::iterator order.        *)
(* Module 16 is module 15 with one more function; the functions the two    *)
(* list in common stand for identical copies, and no instruction of the    *)
(* added function uses a value of the others.                              *)
(***************************************************************************)
ModuleTable ==
  << << >>,                 \* 1  the empty module
     << 1 >>,               \* 2  send declared, receive missing
     << 2, 3, 4 >>,         \* 3  two functions carry the send name
     << 5, 6 >>,            \* 4  both declared, no call site
     << 7, 8, 9 >>,         \* 5  branch on a stack cell guards a send
     << 10, 11, 12 >>,      \* 6  one block calls send and receive
     << 15, 13, 14, 16 >>,  \* 7  several call sites, function address taken
     << 17, 18, 19, 20 >>,  \* 8  two stack cells, one of them unrelated
     << 21, 22, 23 >>,      \* 9  sink in the entry block
     << 24, 25, 26 >>,      \* 10 sink behind an unconditional branch
     << 27, 28, 29 >>,      \* 11 loop-carried phi decides the sink
     << 30, 31, 32 >>,      \* 12 sink block is its own predecessor
     << 33, 34, 35 >>,      \* 13 cell-to-cell flow, repeated operands
     << 36, 37, 38, 39 >>,  \* 14 two functions with sinks, address of a cell stored
     << 40, 41, 42 >>,      \* 15 a cell that is only written, next to a guarding cell
     << 40, 41, 42, 43 >> >>\* 16 module 15 and a function without sinks

Modules == DOMAIN ModuleTable

(***************************************************************************)
(* Function owning each basic block.  Index = block identity.              *)
(***************************************************************************)
BlockTable ==
  << 9, 9, 9,               \* 1-3    module 5: entry, then, else
     12, 12, 12,            \* 4-6    module 6: entry, then, else
     15, 15, 15,            \* 7-9    module 7: entry, then, else
     19, 19, 19,            \* 10-12  module 8: entry, then, else
     23,                    \* 13     module 9: entry
     26, 26, 26, 26, 26,    \* 14-18  module 10: entry, mid, other, then, exit
     29, 29, 29,            \* 19-21  module 11: entry, loop, exit
     32, 32, 32,            \* 22-24  module 12: entry, loop, exit
     35, 35,                \* 25-26  module 13: entry, then
     38, 38, 38,            \* 27-29  module 14, main: entry, then, else
     39, 39, 39,            \* 30-32  module 14, aux: entry, then, else
     42, 42, 42,            \* 33-35  modules 15, 16, main: entry, then, else
     43, 43, 43 >>          \* 36-38  module 16, helper: entry, then, else

(***************************************************************************)
(* Instructions: kind, enclosing block, operand list.  Index = identity.   *)
(* A call lists its arguments and then its callee; a conditional branch    *)
(* lists its condition and then its two targets.                           *)
(***************************************************************************)
InstTable ==
  << \* module 5:  %a = alloca; store 0,%a; %v = load %a; %c = icmp %v,0;
     \*            br %c, then, else;  then: call MPI_Send
     Ins("alloca", 1, << Const(1) >>),                       \* 1  %a
     Ins("store",  1, << Const(0), Inst(1) >>),              \* 2
     Ins("load",   1, << Inst(1) >>),                        \* 3  %v
     Ins("icmp",   1, << Inst(3), Const(0) >>),              \* 4  %c
     Ins("br",     1, << Inst(4), Block(3), Block(2) >>),    \* 5
     Ins("call",   2, << Const(0), Func(7) >>),              \* 6
     Ins("ret",    2, << >>),                                \* 7
     Ins("ret",    3, << >>),                                \* 8
     \* module 6:  as module 5, then: call MPI_Send; call MPI_Recv
     Ins("alloca", 4, << Const(1) >>),                       \* 9  %a
     Ins("store",  4, << Const(0), Inst(9) >>),              \* 10
     Ins("load",   4, << Inst(9) >>),                        \* 11 %v
     Ins("icmp",   4, << Inst(11), Const(0) >>),             \* 12 %c
     Ins("br",     4, << Inst(12), Block(6), Block(5) >>),   \* 13
     Ins("call",   5, << Const(0), Func(10) >>),             \* 14
     Ins("call",   5, << Const(0), Func(11) >>),             \* 15
     Ins("ret",    5, << >>),                                \* 16
     Ins("ret",    6, << >>),                                \* 17
     \* module 7:  %x = call reg(@MPI_Send); %c = icmp %x,0; br %c, then, else
     \*            then: two sends and a receive;  else: a receive
     Ins("call",   7, << Func(13), Func(16) >>),             \* 18 %x
     Ins("icmp",   7, << Inst(18), Const(0) >>),             \* 19 %c
     Ins("br",     7, << Inst(19), Block(9), Block(8) >>),   \* 20
     Ins("call",   8, << Const(0), Func(13) >>),             \* 21
     Ins("call",   8, << Const(0), Func(13) >>),             \* 22
     Ins("call",   8, << Const(0), Func(14) >>),             \* 23
     Ins("ret",    8, << >>),                                \* 24
     Ins("call",   9, << Const(0), Func(14) >>),             \* 25
     Ins("ret",    9, << >>),                                \* 26
     \* module 8:  %a, %b = alloca; %x = call cfg(); store %x,%a; store %x,%b;
     \*            %w = load %b; %v = load %a; %c = icmp %v,0; br %c, then, else
     \*            then: call MPI_Send(%w)
     Ins("alloca", 10, << Const(1) >>),                      \* 27 %a
     Ins("alloca", 10, << Const(1) >>),                      \* 28 %b
     Ins("call",   10, << Func(20) >>),                      \* 29 %x
     Ins("store",  10, << Inst(29), Inst(27) >>),            \* 30
     Ins("store",  10, << Inst(29), Inst(28) >>),            \* 31
     Ins("load",   10, << Inst(28) >>),                      \* 32 %w
     Ins("load",   10, << Inst(27) >>),                      \* 33 %v
     Ins("icmp",   10, << Inst(33), Const(0) >>),            \* 34 %c
     Ins("br",     10, << Inst(34), Block(12), Block(11) >>),\* 35
     Ins("call",   11, << Inst(32), Func(17) >>),            \* 36
     Ins("ret",    11, << >>),                               \* 37
     Ins("ret",    12, << >>),                               \* 38
     \* module 9:  entry: %a = alloca; %v = load %a; call MPI_Send(%v); ret
     Ins("alloca", 13, << Const(1) >>),                      \* 39 %a
     Ins("load",   13, << Inst(39) >>),                      \* 40 %v
     Ins("call",   13, << Inst(40), Func(21) >>),            \* 41
     Ins("ret",    13, << >>),                               \* 42
     \* module 10: entry: %c = icmp (load %a),0; br %c, mid, other
     \*            mid: br then;  other: %e = icmp (load %d),0; br %e, then, exit
     \*            then: call MPI_Recv
     Ins("alloca", 14, << Const(1) >>),                      \* 43 %a
     Ins("load",   14, << Inst(43) >>),                      \* 44
     Ins("icmp",   14, << Inst(44), Const(0) >>),            \* 45 %c
     Ins("br",     14, << Inst(45), Block(16), Block(15) >>),\* 46
     Ins("br",     15, << Block(17) >>),                     \* 47
     Ins("alloca", 16, << Const(1) >>),                      \* 48 %d
     Ins("load",   16, << Inst(48) >>),                      \* 49
     Ins("icmp",   16, << Inst(49), Const(0) >>),            \* 50 %e
     Ins("br",     16, << Inst(50), Block(18), Block(17) >>),\* 51
     Ins("call",   17, << Const(0), Func(25) >>),            \* 52
     Ins("ret",    17, << >>),                               \* 53
     Ins("ret",    18, << >>),                               \* 54
     \* module 11: entry: br loop
     \*            loop: %i = phi [0, %inc]; %inc = add %i,1; %c = icmp %i,10;
     \*                  br %c, loop, exit;   exit: call MPI_Send
     Ins("br",     19, << Block(20) >>),                     \* 55
     Ins("phi",    20, << Const(0), Inst(57) >>),            \* 56 %i
     Ins("add",    20, << Inst(56), Const(1) >>),            \* 57 %inc
     Ins("icmp",   20, << Inst(56), Const(10) >>),           \* 58 %c
     Ins("br",     20, << Inst(58), Block(21), Block(20) >>),\* 59
     Ins("call",   21, << Const(0), Func(27) >>),            \* 60
     Ins("ret",    21, << >>),                               \* 61
     \* module 12: entry: %a = alloca; store 0,%a; br loop
     \*            loop: %v = load %a; call MPI_Send(%v); %c = icmp %v,0;
     \*                  br %c, loop, exit;   exit: call MPI_Recv
     Ins("alloca", 22, << Const(1) >>),                      \* 62 %a
     Ins("store",  22, << Const(0), Inst(62) >>),            \* 63
     Ins("br",     22, << Block(23) >>),                     \* 64
     Ins("load",   23, << Inst(62) >>),                      \* 65 %v
     Ins("call",   23, << Inst(65), Func(30) >>),            \* 66
     Ins("icmp",   23, << Inst(65), Const(0) >>),            \* 67 %c
     Ins("br",     23, << Inst(67), Block(24), Block(23) >>),\* 68
     Ins("call",   24, << Const(0), Func(31) >>),            \* 69
     Ins("ret",    24, << >>),                               \* 70
     \* module 13: %a, %b = alloca; store 1,%b; %t = load %b; %u = add %t,%t;
     \*            store %u,%a; %v = load %a; %c = icmp %v,%u; br %c, then, then
     \*            then: call MPI_Send; call MPI_Recv(%a)
     Ins("alloca", 25, << Const(1) >>),                      \* 71 %a
     Ins("alloca", 25, << Const(1) >>),                      \* 72 %b
     Ins("store",  25, << Const(1), Inst(72) >>),            \* 73
     Ins("load",   25, << Inst(72) >>),                      \* 74 %t
     Ins("add",    25, << Inst(74), Inst(74) >>),            \* 75 %u
     Ins("store",  25, << Inst(75), Inst(71) >>),            \* 76
     Ins("load",   25, << Inst(71) >>),                      \* 77 %v
     Ins("icmp",   25, << Inst(77), Inst(75) >>),            \* 78 %c
     Ins("br",     25, << Inst(78), Block(26), Block(26) >>),\* 79
     Ins("call",   26, << Const(0), Func(33) >>),            \* 80
     Ins("call",   26, << Inst(71), Func(34) >>),            \* 81
     Ins("ret",    26, << >>),                               \* 82
     \* module 14, main: %p, %a = alloca; store %a,%p; %q = load %p;
     \*            %v = load %q; %c = icmp %v,0; br %c, then, else
     \*            then: call MPI_Send
     Ins("alloca", 27, << Const(1) >>),                      \* 83 %p
     Ins("alloca", 27, << Const(1) >>),                      \* 84 %a
     Ins("store",  27, << Inst(84), Inst(83) >>),            \* 85
     Ins("load",   27, << Inst(83) >>),                      \* 86 %q
     Ins("load",   27, << Inst(86) >>),                      \* 87 %v
     Ins("icmp",   27, << Inst(87), Const(0) >>),            \* 88 %c
     Ins("br",     27, << Inst(88), Block(29), Block(28) >>),\* 89
     Ins("call",   28, << Const(0), Func(36) >>),            \* 90
     Ins("ret",    28, << >>),                               \* 91
     Ins("ret",    29, << >>),                               \* 92
     \* module 14, aux:  %b = alloca; %w = load %b; %d = icmp %w,0;
     \*            br %d, then, else;  then: call MPI_Recv; call main
     Ins("alloca", 30, << Const(1) >>),                      \* 93 %b
     Ins("load",   30, << Inst(93) >>),                      \* 94 %w
     Ins("icmp",   30, << Inst(94), Const(0) >>),            \* 95 %d
     Ins("br",     30, << Inst(95), Block(32), Block(31) >>),\* 96
     Ins("call",   31, << Const(0), Func(37) >>),            \* 97
     Ins("call",   31, << Func(38) >>),                      \* 98
     Ins("ret",    31, << >>),                               \* 99
     Ins("ret",    32, << >>),                               \* 100
     \* modules 15, 16, main: %a, %z = alloca; store 0,%a; store 7,%z;
     \*            %v = load %a; %c = icmp %v,0; br %c, then, else
     \*            then: call MPI_Send
     Ins("alloca", 33, << Const(1) >>),                      \* 101 %a
     Ins("alloca", 33, << Const(1) >>),                      \* 102 %z
     Ins("store",  33, << Const(0), Inst(101) >>),           \* 103
     Ins("store",  33, << Const(7), Inst(102) >>),           \* 104
     Ins("load",   33, << Inst(101) >>),                     \* 105 %v
     Ins("icmp",   33, << Inst(105), Const(0) >>),           \* 106 %c
     Ins("br",     33, << Inst(106), Block(35), Block(34) >>),\* 107
     Ins("call",   34, << Const(0), Func(40) >>),            \* 108
     Ins("ret",    34, << >>),                               \* 109
     Ins("ret",    35, << >>),                               \* 110
     \* module 16, helper: %h = alloca; store 0,%h; %g = load %h;
     \*            %k = icmp %g,0; br %k, then, else;  then: call helper
     Ins("alloca", 36, << Const(1) >>),                      \* 111 %h
     Ins("store",  36, << Const(0), Inst(111) >>),           \* 112
     Ins("load",   36, << Inst(111) >>),                     \* 113 %g
     Ins("icmp",   36, << Inst(113), Const(0) >>),           \* 114 %k
     Ins("br",     36, << Inst(114), Block(38), Block(37) >>),\* 115
     Ins("call",   37, << Func(43) >>),                      \* 116
     Ins("ret",    37, << >>),                               \* 117
     Ins("ret",    38, << >>) >>                             \* 118

(***************************************************************************)
(* Constant expressions: users of a function that are not instructions.    *)
(***************************************************************************)
CExprTable ==
  << << Func(5) >>,          \* 1  module 4: @MPI_Send in a global table
     << Func(13) >>,         \* 2  module 7: @MPI_Send in a global table
     << Func(14) >> >>       \* 3  module 7: @MPI_Recv in a global table

Insts == DOMAIN InstTable
Blocks == DOMAIN BlockTable
Funcs == DOMAIN FuncTable

Terminators == {"br", "ret"}


(***************************************************************************)
(* IR accessors used by the pass.                                          *)
(***************************************************************************)
getName(F) == FuncTable[F]

\* dyn_cast<Instruction>(v) succeeds
IsInstruction(v) == v.tag = "inst"

\* dyn_cast<AllocaInst>(v) succeeds
IsAllocaInst(v) == IsInstruction(v) /\ InstTable[v.id].kind = "alloca"

IsTerminatorInst(v) == IsInstruction(v) /\ InstTable[v.id].kind \in Terminators

\* Inst->getParent(): the enclosing block
getParent(v) == InstTable[v.id].parent

\* Pred->getTerminator()
getTerminator(b) ==
  Inst(CHOOSE i \in Insts :
         InstTable[i].parent = b /\ InstTable[i].kind \in Terminators)

\* op_begin() .. op_end() of a user
Operands(v) ==
  IF v.tag = "inst" THEN InstTable[v.id].ops
  ELSE IF v.tag = "cexpr" THEN CExprTable[v.id]
  ELSE << >>

RECURSIVE Repeat(_, _)
Repeat(x, n) == IF n = 0 THEN << >> ELSE << x >> \o Repeat(x, n - 1)

Occurrences(s, v) == Cardinality({k \in DOMAIN s : s[k] = v})

\* the uses of v by instructions lo..hi, the latest instruction first (the
\* range is halved to keep the evaluation shallow)
RECURSIVE InstUses(_, _, _)
InstUses(v, lo, hi) ==
  IF lo > hi THEN << >>
  ELSE IF lo = hi THEN Repeat(Inst(lo), Occurrences(InstTable[lo].ops, v))
  ELSE LET mid == (lo + hi) \div 2
       IN  InstUses(v, mid + 1, hi) \o InstUses(v, lo, mid)

RECURSIVE CExprUses(_, _)
CExprUses(v, n) ==
  IF n = 0 THEN << >>
  ELSE Repeat(CExpr(n), Occurrences(CExprTable[n], v)) \o CExprUses(v, n - 1)

Values ==
  {Inst(i) : i \in Insts} \cup {Block(b) : b \in Blocks}
    \cup {Func(f) : f \in Funcs} \cup {CExpr(c) : c \in DOMAIN CExprTable}
    \cup UNION {Range(InstTable[i].ops) : i \in Insts}

\* The use list of every value: one entry per use, the user of the latest
\* use first (a new use is linked in at the head of the list).
UseTable ==
  [v \in Values |->
     CExprUses(v, Len(CExprTable)) \o InstUses(v, 1, Len(InstTable))]

\* use_begin() .. use_end() of a value, each entry the user
use_list(v) == UseTable[v]

\* pred_begin(BB) .. pred_end(BB): the blocks of the terminators that use BB,
\* one entry per use
pred_list(b) ==
  LET ts == SelectSeq(use_list(Block(b)), IsTerminatorInst)
  IN  [k \in 1..Len(ts) |-> getParent(ts[k])]

(***************************************************************************)
(* The analysed program position and the pass state.                       *)
(***************************************************************************)
Names == {"MPI_Send", "MPI_Recv", "main"}

VARIABLES
  SendName, RecvName,          \* configuration of the pass object
  BasicDeps,                   \* sink blocks, in insertion order
  Deps,                        \* the dependency set
  Worklist,                    \* std::vector used as a stack
  SendCounter, RecvCounter,    \* STATISTIC counters (process-wide)
  SendBasicBlockCounter, RecvBasicBlockCounter,
  M,                           \* module of the current invocation (0: none)
  Send, Recv,                  \* locals of runOnModule
  pc,                          \* position inside runOnModule
  err,                         \* the assertion that failed, if any
  run,                         \* invocations started so far
  hist                         \* what each completed invocation exposed

vars ==
  << SendName, RecvName, BasicDeps, Deps, Worklist, SendCounter, RecvCounter,
     SendBasicBlockCounter, RecvBasicBlockCounter, M, Send, Recv, pc, err,
     run, hist >>

Counters ==
  << SendCounter, RecvCounter, SendBasicBlockCounter, RecvBasicBlockCounter >>

\* The pass object as its constructor leaves it; the statistics start at 0.
Init ==
  /\ SendName \in Names
  /\ RecvName \in Names
  /\ BasicDeps = << >>
  /\ Deps = {}
  /\ Worklist = << >>
  /\ SendCounter = 0
  /\ RecvCounter = 0
  /\ SendBasicBlockCounter = 0
  /\ RecvBasicBlockCounter = 0
  /\ M = 0
  /\ Send = nullptr
  /\ Recv = nullptr
  /\ pc = "idle"
  /\ err = "none"
  /\ run = 0
  /\ hist = << >>

(***************************************************************************)
(* initSendRecv: one scan of the module's functions.  acc holds the two    *)
(* locals and the assertion that failed so far.                            *)
(***************************************************************************)
MatchFunction(acc, F, sn, rn) ==
  IF acc.err # "none" THEN acc
  ELSE IF sn = getName(F)
       THEN IF acc.Send # nullptr
            THEN [acc EXCEPT !.err = "SinkAmbiguous"]
            ELSE [acc EXCEPT !.Send = F]
  ELSE IF rn = getName(F)
       THEN IF acc.Recv # nullptr
            THEN [acc EXCEPT !.err = "SinkAmbiguous"]
            ELSE [acc EXCEPT !.Recv = F]
  ELSE acc

RECURSIVE ScanFunctions(_, _, _, _, _)
ScanFunctions(fs, k, acc, sn, rn) ==
  IF k > Len(fs) THEN acc
  ELSE ScanFunctions(fs, k + 1, MatchFunction(acc, fs[k], sn, rn), sn, rn)

ResolveSinks(fs, sn, rn) ==
  LET r == ScanFunctions(fs, 1,
                         [Send |-> nullptr, Recv |-> nullptr, err |-> "none"],
                         sn, rn)
  IN  IF r.err # "none" THEN r
      ELSE IF r.Send = nullptr \/ r.Recv = nullptr
           THEN [r EXCEPT !.err = "SinkMissing"]
      ELSE r

\* runOnModule(M) up to the return of initSendRecv
initSendRecv(m) ==
  /\ pc \in {"idle", "done"}
  /\ run < MaxRuns
  /\ LET r == ResolveSinks(ModuleTable[m], SendName, RecvName)
     IN  /\ Send' = r.Send
         /\ Recv' = r.Recv
         /\ err' = r.err
         /\ pc' = IF r.err = "none" THEN "resolved" ELSE "failed"
  /\ M' = m
  /\ run' = run + 1
  /\ UNCHANGED << SendName, RecvName, BasicDeps, Deps, Worklist, SendCounter,
                  RecvCounter, SendBasicBlockCounter, RecvBasicBlockCounter,
                  hist >>

(***************************************************************************)
(* initBasicDeps: acc holds BasicDeps, the call-site counter and the       *)
(* block counter of the sink whose users are enumerated.                   *)
(***************************************************************************)
\* the call-site counter bumped only for a block that is new
CountUser_OncePerBlock(acc, u) ==
  IF IsInstruction(u)
  THEN LET b == getParent(u)
           new == b \notin Range(acc.bd)
       IN  [bd     |-> IF new THEN Append(acc.bd, b) ELSE acc.bd,
            blocks |-> IF new THEN acc.blocks + 1 ELSE acc.blocks,
            calls  |-> IF new THEN acc.calls + 1 ELSE acc.calls]
  ELSE acc

CountUser(acc, u) ==
  IF IsInstruction(u)
  THEN LET b == getParent(u)
           new == b \notin Range(acc.bd)
       IN  [bd     |-> IF new THEN Append(acc.bd, b) ELSE acc.bd,
            blocks |-> IF new THEN acc.blocks + 1 ELSE acc.blocks,
            calls  |-> acc.calls + 1]
  ELSE acc

RECURSIVE CountUsers(_, _, _)
CountUsers(us, k, acc) ==
  IF k > Len(us) THEN acc
  ELSE CountUsers(us, k + 1, CountUser(acc, us[k]))

\* the users of Recv enumerated before the users of Send
initBasicDeps_RecvFirst ==
  /\ pc = "resolved"
  /\ LET r == CountUsers(use_list(Func(Recv)), 1,
                         [bd |-> BasicDeps, blocks |-> RecvBasicBlockCounter,
                          calls |-> RecvCounter])
         s == CountUsers(use_list(Func(Send)), 1,
                         [bd |-> r.bd, blocks |-> SendBasicBlockCounter,
                          calls |-> SendCounter])
     IN  /\ BasicDeps' = s.bd
         /\ SendBasicBlockCounter' = s.blocks
         /\ SendCounter' = s.calls
         /\ RecvBasicBlockCounter' = r.blocks
         /\ RecvCounter' = r.calls
  /\ pc' = "seeded"
  /\ UNCHANGED << SendName, RecvName, Deps, Worklist, M, Send, Recv, err, run,
                  hist >>

initBasicDeps ==
  /\ pc = "resolved"
  /\ LET s == CountUsers(use_list(Func(Send)), 1,
                         [bd |-> BasicDeps, blocks |-> SendBasicBlockCounter,
                          calls |-> SendCounter])
         r == CountUsers(use_list(Func(Recv)), 1,
                         [bd |-> s.bd, blocks |-> RecvBasicBlockCounter,
                          calls |-> RecvCounter])
     IN  /\ BasicDeps' = r.bd
         /\ SendBasicBlockCounter' = s.blocks
         /\ SendCounter' = s.calls
         /\ RecvBasicBlockCounter' = r.blocks
         /\ RecvCounter' = r.calls
  /\ pc' = "seeded"
  /\ UNCHANGED << SendName, RecvName, Deps, Worklist, M, Send, Recv, err, run,
                  hist >>

(***************************************************************************)
(* initWorklist: the instruction operands of the terminator of every       *)
(* predecessor of every block of BasicDeps.                                *)
(***************************************************************************)
\* the stack allocations of block b up to its n-th instruction of the table
\* (the instructions of a block are consecutive and end with its terminator)
RECURSIVE AllocasOf(_, _)
AllocasOf(b, n) ==
  IF n = 0 \/ InstTable[n].parent # b THEN << >>
  ELSE AllocasOf(b, n - 1)
         \o (IF InstTable[n].kind = "alloca" THEN << Inst(n) >> ELSE << >>)

\* every stack allocation of the predecessor block taken as a root as well
TerminatorSeeds_WithAllocas(Pred) ==
  SelectSeq(Operands(getTerminator(Pred)), IsInstruction)
    \o AllocasOf(Pred, getTerminator(Pred).id)

TerminatorSeeds(Pred) ==
  SelectSeq(Operands(getTerminator(Pred)), IsInstruction)

RECURSIVE PredSeeds(_, _)
PredSeeds(preds, k) ==
  IF k > Len(preds) THEN << >>
  ELSE TerminatorSeeds(preds[k]) \o PredSeeds(preds, k + 1)

\* the instruction operands of the instructions of block b up to its n-th
\* instruction of the table
RECURSIVE BlockOperands(_, _)
BlockOperands(b, n) ==
  IF n = 0 \/ InstTable[n].parent # b THEN << >>
  ELSE BlockOperands(b, n - 1) \o SelectSeq(InstTable[n].ops, IsInstruction)

\* the operands of the instructions of the sink block taken as roots as well
RECURSIVE BlockSeeds_WithSinkOperands(_, _)
BlockSeeds_WithSinkOperands(bbs, k) ==
  IF k > Len(bbs) THEN << >>
  ELSE BlockOperands(bbs[k], getTerminator(bbs[k]).id)
         \o PredSeeds(pred_list(bbs[k]), 1)
         \o BlockSeeds_WithSinkOperands(bbs, k + 1)

\* a sink block is not taken as a predecessor of itself
RECURSIVE BlockSeeds_NoSelfLoop(_, _)
BlockSeeds_NoSelfLoop(bbs, k) ==
  IF k > Len(bbs) THEN << >>
  ELSE LET Other(p) == p # bbs[k]
       IN  PredSeeds(SelectSeq(pred_list(bbs[k]), Other), 1)
             \o BlockSeeds_NoSelfLoop(bbs, k + 1)

RECURSIVE BlockSeeds(_, _)
BlockSeeds(bbs, k) ==
  IF k > Len(bbs) THEN << >>
  ELSE PredSeeds(pred_list(bbs[k]), 1) \o BlockSeeds(bbs, k + 1)

\* the control frontier of every block of the module, sink block or not
initWorklist_EveryBlock ==
  /\ pc = "seeded"
  /\ LET InM(b) == BlockTable[b] \in Range(ModuleTable[M])
     IN  Worklist' =
           Worklist \o BlockSeeds(SelectSeq([b \in 1..Len(BlockTable) |-> b], InM), 1)
  /\ pc' = "loop"
  /\ UNCHANGED << SendName, RecvName, BasicDeps, Deps, SendCounter,
                  RecvCounter, SendBasicBlockCounter, RecvBasicBlockCounter,
                  M, Send, Recv, err, run, hist >>

initWorklist ==
  /\ pc = "seeded"
  /\ Worklist' = Worklist \o BlockSeeds(BasicDeps, 1)
  /\ pc' = "loop"
  /\ UNCHANGED << SendName, RecvName, BasicDeps, Deps, SendCounter,
                  RecvCounter, SendBasicBlockCounter, RecvBasicBlockCounter,
                  M, Send, Recv, err, run, hist >>

(***************************************************************************)
(* reachFixpoint: one iteration of the while loop, and its exit.           *)
(***************************************************************************)
\* the operand scan without the dyn_cast<Instruction> test
OperandPushes_Unfiltered(V) == Operands(V)

\* the operand scan stopped after the first instruction it finds
OperandPushes_FirstOnly(V) ==
  LET found == SelectSeq(Operands(V), IsInstruction)
  IN  IF found = << >> THEN << >> ELSE << found[1] >>

\* lines 135-140: what the operand scan of V pushes
OperandPushes(V) == SelectSeq(Operands(V), IsInstruction)

\* the user scan left out
UserPushes_NoFanOut(V, inserted) == << >>

\* the user scan without the dyn_cast<AllocaInst> test
UserPushes_AnyInstruction(V, inserted) ==
  IF inserted THEN SelectSeq(use_list(V), IsInstruction) ELSE << >>

\* the user scan restricted to the loads of the stack allocation
UserPushes_LoadsOnly(V, inserted) ==
  IF inserted /\ IsAllocaInst(V)
  THEN LET IsLoad(u) == IsInstruction(u) /\ InstTable[u.id].kind = "load"
       IN  SelectSeq(use_list(V), IsLoad)
  ELSE << >>

\* lines 142-151: what the user scan pushes; inserted = Deps.insert(V)
UserPushes(V, inserted) ==
  IF inserted /\ IsAllocaInst(V)
  THEN SelectSeq(use_list(V), IsInstruction)
  ELSE << >>

\* the operand scan guarded by the membership test as well
reachFixpointStep_GuardedOperands ==
  /\ pc = "loop"
  /\ Worklist # << >>
  /\ LET V == Worklist[Len(Worklist)]
         rest == SubSeq(Worklist, 1, Len(Worklist) - 1)
     IN  /\ Worklist' =
              rest \o (IF V \notin Deps THEN OperandPushes(V) ELSE << >>)
                   \o UserPushes(V, V \notin Deps)
         /\ Deps' = Deps \cup {V}
  /\ UNCHANGED << SendName, RecvName, BasicDeps, SendCounter, RecvCounter,
                  SendBasicBlockCounter, RecvBasicBlockCounter, M, Send, Recv,
                  pc, err, run, hist >>

reachFixpointStep ==
  /\ pc = "loop"
  /\ Worklist # << >>
  /\ LET V == Worklist[Len(Worklist)]
         rest == SubSeq(Worklist, 1, Len(Worklist) - 1)
     IN  /\ Worklist' = rest \o OperandPushes(V) \o UserPushes(V, V \notin Deps)
         /\ Deps' = Deps \cup {V}
  /\ UNCHANGED << SendName, RecvName, BasicDeps, SendCounter, RecvCounter,
                  SendBasicBlockCounter, RecvBasicBlockCounter, M, Send, Recv,
                  pc, err, run, hist >>

\* printAllocaDeps: the stack allocations of Deps
AllocaDeps == {V \in Deps : IsAllocaInst(V)}

\* the loop ends, runOnModule prints the projection and returns false
reachFixpointExit ==
  /\ pc = "loop"
  /\ Worklist = << >>
  /\ pc' = "done"
  /\ hist' = Append(hist, [M |-> M, Deps |-> Deps, Allocas |-> AllocaDeps,
                           Counters |-> Counters])
  /\ UNCHANGED << SendName, RecvName, BasicDeps, Deps, Worklist, SendCounter,
                  RecvCounter, SendBasicBlockCounter, RecvBasicBlockCounter,
                  M, Send, Recv, err, run >>

Next ==
  \/ \E m \in Modules : initSendRecv(m)
  \/ initBasicDeps
  \/ initWorklist
  \/ reachFixpointStep
  \/ reachFixpointExit

Spec == Init /\ [][Next]_vars

\* The pass is single-threaded and synchronous: an invocation that has
\* started keeps executing its next statement.
RunOnModuleStep ==
  initBasicDeps \/ initWorklist \/ reachFixpointStep \/ reachFixpointExit

FairSpec == Spec /\ WF_vars(RunOnModuleStep)

(***************************************************************************)
(* Vocabulary of the properties, read off the IR tables directly.          *)
(***************************************************************************)
\* the module a block or an instruction belongs to
BlockInModule(b, m) == BlockTable[b] \in Range(ModuleTable[m])
InstInModule(V, m) == IsInstruction(V) /\ BlockInModule(getParent(V), m)

\* the use edges of function F whose user is an instruction (tabulated
\* once; nullptr has none)
InstructionUsesTable ==
  [F \in Funcs \cup {nullptr} |->
     UNION {{<< i, k >> : k \in {j \in DOMAIN InstTable[i].ops :
                                    InstTable[i].ops[j] = Func(F)}} : i \in Insts}]

InstructionUses(F) == InstructionUsesTable[F]

\* the blocks that hold an instruction user of F
UserBlocks(F) == {InstTable[e[1]].parent : e \in InstructionUses(F)}

\* the instruction operands of an instruction, the instruction users of it
InstOperands(V) == {op \in Range(InstTable[V.id].ops) : op.tag = "inst"}

InstUsersTable ==
  [n \in Insts |->
     {Inst(i) : i \in {j \in Insts : Inst(n) \in Range(InstTable[j].ops)}}]

InstUsers(V) == InstUsersTable[V.id]

\* the blocks whose terminator names b as a target
PredecessorsTable ==
  [b \in Blocks |->
     {InstTable[i].parent :
        i \in {j \in Insts : /\ InstTable[j].kind \in Terminators
                             /\ Block(b) \in Range(InstTable[j].ops)}}]

Predecessors(b) == PredecessorsTable[b]

\* the instruction operands of the terminators of the predecessors of b
BlockFrontier ==
  [b \in Blocks |->
     UNION {InstOperands(getTerminator(p)) : p \in Predecessors(b)}]

\* the instruction operands of the terminators of the predecessors of the
\* blocks of SinkBlocks
FrontierSeeds == UNION {BlockFrontier[b] : b \in Range(BasicDeps)}

\* the names that resolve in module m
MatchCount(name, m) ==
  Cardinality({k \in DOMAIN ModuleTable[m] : FuncTable[ModuleTable[m][k]] = name})

\* states of the first invocation on a new pass object in a new process,
\* after initBasicDeps
SeededFresh == run = 1 /\ pc \in {"seeded", "loop", "done"}

(***************************************************************************)
(* C1.  The closure loop terminates: once the loop of reachFixpoint is     *)
(* entered, it is eventually left with an empty Worklist, whatever the     *)
(* operand graph of the module.                                            *)
(***************************************************************************)
C1_LoopTerminates == (pc = "loop") ~> (pc = "done" /\ Worklist = << >>)

(***************************************************************************)
(* C2.  When the loop has ended (Worklist empty), Deps holds every         *)
(* instruction operand of each member and every instruction user of each   *)
(* stack allocation that is a member.                                      *)
(***************************************************************************)
C2_ClosedAtTermination ==
  (pc \in {"loop", "done"} /\ Worklist = << >>) =>
     \A V \in Deps :
        /\ InstOperands(V) \subseteq Deps
        /\ InstTable[V.id].kind = "alloca" => InstUsers(V) \subseteq Deps

\* a completed run in which a stack allocation and a store into it are members
C2_Witness ==
  /\ pc = "done"
  /\ \E A \in Deps : \E U \in Deps :
        /\ InstTable[A.id].kind = "alloca"
        /\ InstTable[U.id].kind = "store"
        /\ A \in InstOperands(U)

(***************************************************************************)
(* C3.  Closure soundness: in every state every member of Deps is an       *)
(* operand of the terminator of a predecessor of a sink block, or an       *)
(* operand of another member, or a user of a stack allocation that is a    *)
(* member.                                                                 *)
(***************************************************************************)
Justified(V) ==
  \/ V \in FrontierSeeds
  \/ \E D \in Deps \ {V} : V \in InstOperands(D)
  \/ \E A \in Deps : InstTable[A.id].kind = "alloca" /\ V \in InstUsers(A)

C3_ClosureSoundness == \A V \in Deps : IsInstruction(V) /\ Justified(V)

\* a member that is there only as a user of a stack allocation
C3_Witness ==
  \E V \in Deps :
     /\ V \notin FrontierSeeds
     /\ \A D \in Deps : V \notin InstOperands(D)
     /\ \E A \in Deps : InstTable[A.id].kind = "alloca" /\ V \in InstUsers(A)

(***************************************************************************)
(* C4.  Type discipline: every element of Deps and of Worklist is an       *)
(* instruction; no constant, function, block or constant expression is     *)
(* ever pushed or inserted.                                                *)
(***************************************************************************)
C4_TypeDiscipline ==
  \A V \in Deps \cup Range(Worklist) : V.tag = "inst" /\ V.id \in Insts

\* members with a constant operand and with the receive function as an
\* operand, seeded from a terminator that names blocks
C4_Witness ==
  /\ pc = "loop"
  /\ Worklist # << >>
  /\ \E V \in Deps : \E op \in Range(Operands(V)) : op.tag = "const"
  /\ \E V \in Deps : Func(Recv) \in Range(Operands(V))
  /\ \E b \in Range(BasicDeps) : \E p \in Predecessors(b) :
        \E op \in Range(Operands(getTerminator(p))) : op.tag = "block"

(***************************************************************************)
(* C5.  Sink resolution fails with SinkMissing when a name matches no      *)
(* function of the module and with SinkAmbiguous when a name matches more  *)
(* than one (either error when both apply); it succeeds and returns the    *)
(* two matching functions when each name matches exactly one; a failure    *)
(* leaves SinkBlocks, Deps, Worklist and the counters unchanged and        *)
(* exposes no result.                                                      *)
(***************************************************************************)
C5_SinkResolution ==
  /\ [](run >= 1 =>
          LET cS == MatchCount(SendName, M)
              cR == MatchCount(RecvName, M)
          IN  /\ (cS = 0 \/ cR = 0 \/ cS > 1 \/ cR > 1) =>
                    /\ pc = "failed"
                    /\ err = "SinkMissing" => (cS = 0 \/ cR = 0)
                    /\ err = "SinkAmbiguous" => (cS > 1 \/ cR > 1)
              /\ (cS = 1 /\ cR = 1) =>
                    /\ pc # "failed"
                    /\ Send \in Range(ModuleTable[M])
                    /\ Recv \in Range(ModuleTable[M])
                    /\ FuncTable[Send] = SendName
                    /\ FuncTable[Recv] = RecvName)
  /\ [][pc' = "failed" =>
          UNCHANGED << BasicDeps, Deps, Worklist, Counters, hist >>]_vars

(***************************************************************************)
(* C6.  Invocations are independent: SinkBlocks, Deps and Worklist are     *)
(* empty when an invocation starts, every element of SinkBlocks and of     *)
(* Deps belongs to the module being analysed, and two completed            *)
(* invocations on the same module expose the same Deps and the same        *)
(* alloca projection.                                                      *)
(***************************************************************************)
C6_InvocationsIndependent ==
  /\ pc = "resolved" => (BasicDeps = << >> /\ Deps = {} /\ Worklist = << >>)
  /\ pc \in {"resolved", "seeded", "loop", "done"} =>
       /\ \A b \in Range(BasicDeps) : BlockInModule(b, M)
       /\ \A V \in Deps : InstInModule(V, M)
  /\ \A j \in DOMAIN hist : \A k \in DOMAIN hist :
        hist[j].M = hist[k].M =>
           /\ hist[j].Deps = hist[k].Deps
           /\ hist[j].Allocas = hist[k].Allocas

(***************************************************************************)
(* C7.  Idempotence: a completed invocation on module M followed by a      *)
(* completed invocation on the same M exposes the same Deps and the same   *)
(* values of the four counters.                                            *)
(***************************************************************************)
C7_Idempotent ==
  \A k \in DOMAIN hist :
     (k + 1 \in DOMAIN hist /\ hist[k].M = hist[k + 1].M) =>
        /\ hist[k + 1].Deps = hist[k].Deps
        /\ hist[k + 1].Counters = hist[k].Counters

(***************************************************************************)
(* C8.  After initBasicDeps of a first invocation each block counter is    *)
(* the number of distinct blocks that hold a call to its sink.             *)
(***************************************************************************)
C8_DistinctBlockCounters ==
  SeededFresh =>
     /\ SendBasicBlockCounter = Cardinality(UserBlocks(Send))
     /\ RecvBasicBlockCounter = Cardinality(UserBlocks(Recv))

(***************************************************************************)
(* C9.  After initBasicDeps of a first invocation each call-site counter   *)
(* is the number of uses of its sink by an instruction, however the uses   *)
(* are spread over blocks and whatever other users the sink has, and       *)
(* SinkBlocks is the set of the blocks of those instructions.              *)
(***************************************************************************)
C9_CallSiteCounters ==
  SeededFresh =>
     /\ SendCounter = Cardinality(InstructionUses(Send))
     /\ RecvCounter = Cardinality(InstructionUses(Recv))
     /\ Range(BasicDeps) = UserBlocks(Send) \cup UserBlocks(Recv)

\* two uses of the send function in one block, a third in another block, and
\* a user of it that is no instruction
C9_Witness ==
  /\ SeededFresh
  /\ pc = "seeded"
  /\ \E c \in DOMAIN CExprTable : Func(Send) \in Range(CExprTable[c])
  /\ \E e \in InstructionUses(Send) : \E f \in InstructionUses(Send) :
        e # f /\ InstTable[e[1]].parent = InstTable[f[1]].parent
  /\ SendCounter = 3
  /\ SendBasicBlockCounter = 2

RECURSIVE OperandReach(_)
OperandReach(S) ==
  LET n == S \cup UNION {InstOperands(V) : V \in S}
  IN  IF n = S THEN S ELSE OperandReach(n)

\* the blocks that hold a call site of the resolved Send or Recv
SinkBlocks == UserBlocks(Send) \cup UserBlocks(Recv)

\* the stack allocations a load of which reaches, through operand edges, an
\* operand of the terminator of a predecessor of a sink block
GuardedBy ==
  [b \in Blocks |->
     {A \in {Inst(i) : i \in Insts} :
        /\ InstTable[A.id].kind = "alloca"
        /\ \E p \in Predecessors(b) :
              \E L \in OperandReach(InstOperands(getTerminator(p))) :
                 InstTable[L.id].kind = "load" /\ A \in InstOperands(L)}]

GuardingAllocas == UNION {GuardedBy[b] : b \in SinkBlocks}

\* the instructions stored into stack allocation A
StoredValues(A) ==
  {InstTable[i].ops[1] :
     i \in {j \in Insts : /\ InstTable[j].kind = "store"
                          /\ InstTable[j].ops[2] = A
                          /\ InstTable[j].ops[1].tag = "inst"}}

(***************************************************************************)
(* C11.  Reflective allocation fan-out: when a load of stack allocation A  *)
(* reaches, through operand edges, the terminator of a predecessor of a    *)
(* sink block, then at termination A is in Deps and in the alloca          *)
(* projection, every instruction user of A (loads and stores) is in Deps,  *)
(* and every instruction stored into A is in Deps.                         *)
(***************************************************************************)
C11_ReflectiveFanOut ==
  pc = "done" =>
     \A A \in GuardingAllocas :
        /\ A \in Deps
        /\ A \in hist[Len(hist)].Allocas
        /\ InstUsers(A) \subseteq Deps
        /\ StoredValues(A) \subseteq Deps

\* a completed run over a guarding stack allocation that is loaded and into
\* which the result of an instruction is stored
C11_Witness ==
  /\ pc = "done"
  /\ \E A \in GuardingAllocas :
        /\ StoredValues(A) # {}
        /\ \E L \in InstUsers(A) : InstTable[L.id].kind = "load"
        /\ InstUsers(A) \cup StoredValues(A) \subseteq Deps

(***************************************************************************)
(* Stack allocations by the way they are written.                          *)
(***************************************************************************)
Allocas == {Inst(i) : i \in {j \in Insts : InstTable[j].kind = "alloca"}}

\* the stores into stack allocation A
StoresInto(A) ==
  {Inst(i) : i \in {j \in Insts : /\ InstTable[j].kind = "store"
                                  /\ InstTable[j].ops[2] = A}}

\* A is written, and only with constants
WrittenWithConstantsOnly(A) ==
  /\ StoresInto(A) # {}
  /\ \A U \in StoresInto(A) : InstTable[U.id].ops[1].tag = "const"

\* the stack allocations whose only users are stores of constant values
ConstantOnlyCells ==
  {A \in Allocas : WrittenWithConstantsOnly(A) /\ InstUsers(A) = StoresInto(A)}

\* the constants stored into stack allocation A
StoredConstants(A) == {InstTable[U.id].ops[1] : U \in StoresInto(A)}

(***************************************************************************)
(* C12 as stated.  A stack allocation of the analysed module whose only    *)
(* users are stores of constant values is a member of the final Deps, and  *)
(* the stored constant is not.                                             *)
(***************************************************************************)
C12_ConstantOnlyCellInDeps ==
  pc = "done" =>
     \A A \in ConstantOnlyCells :
        InstInModule(A, M) => (A \in Deps /\ StoredConstants(A) \cap Deps = {})

(***************************************************************************)
(* C12, amended.  A stack allocation whose only users are stores of        *)
(* constant values is never a member of Deps or of Worklist, nor are its   *)
(* stores or the stored constants: nothing that is reached uses it.  A     *)
(* stack allocation that guards a sink and is written only with constants  *)
(* is a member of the final Deps together with its stores, and the stored  *)
(* constants are not.                                                      *)
(***************************************************************************)
C12_ConstantOnlyCellUnreached ==
  /\ \A A \in ConstantOnlyCells :
        ({A} \cup StoresInto(A) \cup StoredConstants(A))
           \cap (Deps \cup Range(Worklist)) = {}
  /\ pc = "done" =>
        \A A \in GuardingAllocas :
           WrittenWithConstantsOnly(A) =>
              /\ {A} \cup StoresInto(A) \subseteq Deps
              /\ StoredConstants(A) \cap Deps = {}

\* a completed run on a module with both kinds of cell in one block: the one
\* that guards the sink is a member, the one that is only written is not
C12_Witness ==
  /\ pc = "done"
  /\ \E A \in ConstantOnlyCells : \E B \in GuardingAllocas :
        /\ InstInModule(A, M)
        /\ getParent(A) = getParent(B)
        /\ WrittenWithConstantsOnly(B)
        /\ B \in Deps
        /\ A \notin Deps

(***************************************************************************)
(* The closure the analysis is to compute.                                 *)
(***************************************************************************)
\* the least set that contains S and is closed under instruction operands
\* and, at stack allocations, under instruction users
RECURSIVE LeastClosure(_)
LeastClosure(S) ==
  LET n == S \cup UNION {InstOperands(V) : V \in S}
             \cup UNION {InstUsers(A) : A \in S \cap Allocas}
  IN  IF n = S THEN S ELSE LeastClosure(n)

(***************************************************************************)
(* C13.  Minimality: in a first invocation a stack allocation that is not  *)
(* reachable from a control-frontier seed by operand edges and, at stack   *)
(* allocations, user edges is never a member of Deps.                      *)
(***************************************************************************)
C13_Minimality ==
  run = 1 =>
     \A B \in Allocas : B \notin LeastClosure(FrontierSeeds) => B \notin Deps

\* a completed first run on two stack allocations of one block that receive
\* the same stored value: the one the branch reads is a member, the other,
\* read only for the argument of the sink call, is not
C13_Witness ==
  /\ run = 1
  /\ pc = "done"
  /\ \E A \in Allocas \cap Deps : \E B \in Allocas \ Deps :
        /\ getParent(A) = getParent(B)
        /\ StoredValues(A) \cap StoredValues(B) \cap Deps # {}
        /\ \E L \in InstUsers(B) : InstTable[L.id].kind = "load"

(***************************************************************************)
(* C14.  Empty frontier: in a first invocation in which no sink block has  *)
(* a predecessor (in particular when the sinks have no call site at all),  *)
(* Worklist is empty after initWorklist and Deps is empty from then on;    *)
(* the counters still count the call sites: all four are zero when there   *)
(* is no call site, and a single call site gives its sink one call site    *)
(* and one block.                                                          *)
(***************************************************************************)
C14_EmptyFrontier ==
  (/\ run = 1
   /\ pc \in {"loop", "done"}
   /\ \A b \in SinkBlocks : Predecessors(b) = {}) =>
     /\ Worklist = << >>
     /\ Deps = {}
     /\ SinkBlocks = {} => Counters = << 0, 0, 0, 0 >>
     /\ (Cardinality(InstructionUses(Send)) = 1 /\ InstructionUses(Recv) = {})
           => Counters = << 1, 0, 1, 0 >>
     /\ (InstructionUses(Send) = {} /\ Cardinality(InstructionUses(Recv)) = 1)
           => Counters = << 0, 1, 0, 1 >>

\* a completed first run whose only sink call sits in an entry block and
\* takes the result of an instruction as its argument
C14_Witness ==
  /\ run = 1
  /\ pc = "done"
  /\ Cardinality(SinkBlocks) = 1
  /\ \A b \in SinkBlocks : Predecessors(b) = {}
  /\ \E e \in InstructionUses(Send) : InstOperands(Inst(e[1])) # {}
  /\ Deps = {}
  /\ Counters = << 1, 0, 1, 0 >>

(***************************************************************************)
(* First invocations only: every invocation runs in a process of its own,  *)
(* on a pass object of its own with the same two names.  hist then lists   *)
(* what first invocations expose.                                          *)
(***************************************************************************)
\* bound: the processes that complete an invocation
MaxProcesses == 2

\* the process ends (runOnModule returned, or an assertion aborted it) and a
\* new one starts: statistics at zero, members as the constructor leaves them
NewProcess ==
  /\ pc \in {"done", "failed"}
  /\ Len(hist) < MaxProcesses
  /\ BasicDeps' = << >>
  /\ Deps' = {}
  /\ Worklist' = << >>
  /\ SendCounter' = 0
  /\ RecvCounter' = 0
  /\ SendBasicBlockCounter' = 0
  /\ RecvBasicBlockCounter' = 0
  /\ M' = 0
  /\ Send' = nullptr
  /\ Recv' = nullptr
  /\ pc' = "idle"
  /\ err' = "none"
  /\ run' = 0
  /\ UNCHANGED << SendName, RecvName, hist >>

FreshNext ==
  \/ \E m \in Modules : run = 0 /\ initSendRecv(m)
  \/ initBasicDeps
  \/ initWorklist
  \/ reachFixpointStep
  \/ reachFixpointExit
  \/ NewProcess

FreshSpec == Init /\ [][FreshNext]_vars

(***************************************************************************)
(* Module pairs.                                                           *)
(***************************************************************************)
\* module m2 is module m1 with function F added
AddsFunction(m1, m2, F) ==
  /\ F \notin Range(ModuleTable[m1])
  /\ \E k \in DOMAIN ModuleTable[m2] :
        /\ ModuleTable[m2][k] = F
        /\ ModuleTable[m1] =
             SubSeq(ModuleTable[m2], 1, k - 1)
               \o SubSeq(ModuleTable[m2], k + 1, Len(ModuleTable[m2]))

\* the instructions of function F
InstsOf(F) == {Inst(i) : i \in {j \in Insts : BlockTable[InstTable[j].parent] = F}}

\* the functions of module m that carry one of the two configured names
NamedSinks(m) ==
  {G \in Range(ModuleTable[m]) : FuncTable[G] \in {SendName, RecvName}}

\* F holds no call site of a sink of module m
HoldsNoSinkCall(F, m) ==
  \A V \in InstsOf(F) : \A G \in NamedSinks(m) :
     Func(G) \notin Range(InstTable[V.id].ops)

\* no member of D calls F
NotCalledFrom(F, D) ==
  \A V \in D : Func(F) \notin Range(InstTable[V.id].ops)

(***************************************************************************)
(* C15.  Locality: when module M2 is module M1 with one function added     *)
(* that holds no call site of Send or Recv and is not called by a member   *)
(* of the dependency chain, a first invocation on M1 and a first           *)
(* invocation on M2 expose the same Deps, the same alloca projection and   *)
(* the same counters.                                                      *)
(***************************************************************************)
C15_Locality ==
  \A j \in DOMAIN hist : \A k \in DOMAIN hist : \A F \in Funcs :
     (/\ AddsFunction(hist[j].M, hist[k].M, F)
      /\ HoldsNoSinkCall(F, hist[k].M)
      /\ NotCalledFrom(F, hist[j].Deps \cup hist[k].Deps)) =>
        /\ hist[j].Deps = hist[k].Deps
        /\ hist[j].Allocas = hist[k].Allocas
        /\ hist[j].Counters = hist[k].Counters

\* two first invocations, the second on the module of the first with one
\* more function, which branches on a stack cell of its own; the first
\* exposed a stack allocation
C15_Witness ==
  /\ Len(hist) = 2
  /\ hist[1].Allocas # {}
  /\ \E F \in Funcs :
        /\ AddsFunction(hist[1].M, hist[2].M, F)
        /\ HoldsNoSinkCall(F, hist[2].M)
        /\ NotCalledFrom(F, hist[1].Deps \cup hist[2].Deps)
        /\ \E T \in InstsOf(F) : \E L \in OperandReach(InstOperands(T)) :
              /\ InstTable[T.id].kind = "br"
              /\ InstTable[L.id].kind = "alloca"

(***************************************************************************)
(* The closure loop with another removal order: the element at any         *)
(* position of Worklist is taken instead of the last one.  As every        *)
(* position can be taken next, the order of Worklist carries nothing: the  *)
(* step keeps Worklist in the order of the instruction identities, which   *)
(* identifies the lists that differ only in their order.                   *)
(***************************************************************************)
\* push_back of v, kept in order
RECURSIVE PushOrdered(_, _)
PushOrdered(s, v) ==
  IF s = << >> THEN << v >>
  ELSE IF v.id <= s[1].id THEN << v >> \o s
  ELSE << s[1] >> \o PushOrdered(Tail(s), v)

\* push_back of the elements of t, one after the other
RECURSIVE PushAllOrdered(_, _)
PushAllOrdered(s, t) ==
  IF t = << >> THEN s ELSE PushAllOrdered(PushOrdered(s, t[1]), Tail(t))

\* removing the element at position k drops the elements after it as well
reachFixpointStepAt_DropRest(k) ==
  /\ pc = "loop"
  /\ k \in DOMAIN Worklist
  /\ LET V == Worklist[k]
         rest == SubSeq(Worklist, 1, k - 1)
     IN  /\ Worklist' =
              PushAllOrdered(<< >>, rest \o OperandPushes(V)
                                      \o UserPushes(V, V \notin Deps))
         /\ Deps' = Deps \cup {V}
  /\ UNCHANGED << SendName, RecvName, BasicDeps, SendCounter, RecvCounter,
                  SendBasicBlockCounter, RecvBasicBlockCounter, M, Send, Recv,
                  pc, err, run, hist >>

reachFixpointStepAt(k) ==
  /\ pc = "loop"
  /\ k \in DOMAIN Worklist
  /\ LET V == Worklist[k]
         rest == SubSeq(Worklist, 1, k - 1)
                   \o SubSeq(Worklist, k + 1, Len(Worklist))
     IN  /\ Worklist' =
              PushAllOrdered(<< >>, rest \o OperandPushes(V)
                                      \o UserPushes(V, V \notin Deps))
         /\ Deps' = Deps \cup {V}
  /\ UNCHANGED << SendName, RecvName, BasicDeps, SendCounter, RecvCounter,
                  SendBasicBlockCounter, RecvBasicBlockCounter, M, Send, Recv,
                  pc, err, run, hist >>

\* a first invocation whose loop removes an arbitrary element at each step
AnyOrderNext ==
  \/ \E m \in Modules : run = 0 /\ initSendRecv(m)
  \/ initBasicDeps
  \/ initWorklist
  \/ \E k \in DOMAIN Worklist : reachFixpointStepAt(k)
  \/ reachFixpointExit

AnyOrderSpec == Init /\ [][AnyOrderNext]_vars

(***************************************************************************)
(* C16.  Traversal-order independence: whatever element of Worklist each   *)
(* step removes (the last one, as the code does, or any other), a first    *)
(* invocation that leaves the loop ends with Deps equal to the least set   *)
(* that contains the control-frontier seeds and is closed under            *)
(* instruction operands and under instruction users of stack allocations.  *)
(***************************************************************************)
C16_OrderIndependent ==
  (run = 1 /\ pc = "done") => Deps = LeastClosure(FrontierSeeds)

\* the first operand of a member is a member before the second one is: the
\* last-in-first-out order takes the second operand first
C16_Witness ==
  /\ run = 1
  /\ pc = "loop"
  /\ \E V \in Deps :
        /\ Len(InstTable[V.id].ops) = 2
        /\ InstTable[V.id].ops[1].tag = "inst"
        /\ InstTable[V.id].ops[2].tag = "inst"
        /\ InstTable[V.id].ops[1] \in Deps
        /\ InstTable[V.id].ops[2] \notin Deps
        /\ InstTable[V.id].ops[2] \in Range(Worklist)

(***************************************************************************)
(* Predecessor edges, read off the IR tables.                              *)
(***************************************************************************)
\* the uses of block b as a target of a terminator
PredecessorEdges(b) ==
  UNION {{<< i, k >> : k \in {j \in DOMAIN InstTable[i].ops :
                                 InstTable[i].ops[j] = Block(b)}} :
           i \in {j \in Insts : InstTable[j].kind \in Terminators}}

\* one element for every time V is an operand of the terminator of a
\* predecessor edge of a block of SinkBlocks
SeedEdges(V) ==
  UNION {UNION {{<< b, e, j >> : j \in {n \in DOMAIN InstTable[e[1]].ops :
                                          InstTable[e[1]].ops[n] = V}} :
                  e \in PredecessorEdges(b)} :
           b \in Range(BasicDeps)}

(***************************************************************************)
(* C17.  Control-frontier seeding: in a first invocation, when             *)
(* initWorklist has returned, the elements of Worklist are exactly the     *)
(* instruction operands of the terminators of the predecessors of the      *)
(* blocks of SinkBlocks, each once for every predecessor edge and operand  *)
(* position; so a terminator with only block or constant operands          *)
(* contributes nothing, and the terminator of a sink block that is its own *)
(* predecessor is scanned once for that edge.                              *)
(***************************************************************************)
C17_FrontierSeeding ==
  (run = 1 /\ pc = "loop" /\ Deps = {}) =>
     /\ Range(Worklist) = FrontierSeeds
     /\ \A V \in Range(Worklist) :
           Occurrences(Worklist, V) = Cardinality(SeedEdges(V))
     /\ \A b \in Range(BasicDeps) : \A p \in Predecessors(b) :
           InstOperands(getTerminator(p)) = {} =>
              \A op \in Range(Operands(getTerminator(p))) :
                 op \notin Range(Worklist)

\* the only sink block is its own predecessor and has a second predecessor
\* that ends in an unconditional branch: one element is enqueued
C17_Witness ==
  /\ run = 1
  /\ pc = "loop"
  /\ Deps = {}
  /\ Len(BasicDeps) = 1
  /\ BasicDeps[1] \in Predecessors(BasicDeps[1])
  /\ \E p \in Predecessors(BasicDeps[1]) :
        /\ InstOperands(getTerminator(p)) = {}
        /\ Operands(getTerminator(p)) # << >>
  /\ Len(Worklist) = 1

(***************************************************************************)
(* The loop of reachFixpoint run to its end from a given Worklist and      *)
(* Deps, counting the iterations (pops).  The count stops at MaxPops.      *)
(***************************************************************************)
\* bound: the iterations that are counted
MaxPops == 60

RECURSIVE Drain(_, _, _)
Drain(wl, deps, n) ==
  IF wl = << >> \/ n = MaxPops
  THEN [Deps |-> deps, pops |-> n, empty |-> wl = << >>]
  ELSE LET V == wl[Len(wl)]
       IN  Drain(SubSeq(wl, 1, Len(wl) - 1)
                   \o OperandPushes(V) \o UserPushes(V, V \notin deps),
                 deps \cup {V}, n + 1)

\* Worklist without its last element
WithoutLast(wl) == SubSeq(wl, 1, Len(wl) - 1)

\* the last element of Worklist was pushed while an earlier occurrence of it
\* is still waiting in Worklist
DuplicatePushed ==
  /\ pc = "loop"
  /\ Worklist # << >>
  /\ Worklist[Len(Worklist)] \in Range(WithoutLast(Worklist))

(***************************************************************************)
(* C18.  Worklist duplicates are benign: when an instruction has been      *)
(* pushed onto Worklist a second time before its first occurrence was      *)
(* processed, the loop performs at most one more pop than it does without  *)
(* that push, and ends with the same Deps.                                 *)
(***************************************************************************)
C18_DuplicatePushBenign ==
  DuplicatePushed =>
     LET with == Drain(Worklist, Deps, 0)
         without == Drain(WithoutLast(Worklist), Deps, 0)
     IN  (with.empty /\ without.empty) =>
            /\ with.pops <= without.pops + 1
            /\ with.Deps = without.Deps

(***************************************************************************)
(* C19.  Closure step: an iteration of the loop removes the last element   *)
(* V of Worklist and leaves the rest in place, pushes every instruction    *)
(* operand of V whether or not V is a member of Deps, inserts V into Deps, *)
(* and pushes the instruction users of V exactly when V was no member and  *)
(* is a stack allocation; nothing else is pushed.  Deps never loses an     *)
(* element, so the users of a stack allocation are pushed at most once.    *)
(***************************************************************************)
C19_ClosureStep ==
  /\ [][(pc = "loop" /\ pc' = "loop") =>
          /\ Worklist # << >>
          /\ LET n == Len(Worklist)
                 V == Worklist[n]
                 pushed == SubSeq(Worklist', n, Len(Worklist'))
                 fanOut == V \notin Deps /\ InstTable[V.id].kind = "alloca"
             IN  /\ Len(Worklist') >= n - 1
                 /\ SubSeq(Worklist', 1, n - 1) = SubSeq(Worklist, 1, n - 1)
                 /\ Deps' = Deps \cup {V}
                 /\ \A x \in Range(pushed) : x.tag = "inst"
                 /\ \A i \in Insts :
                       Occurrences(pushed, Inst(i)) =
                          Occurrences(InstTable[V.id].ops, Inst(i))
                            + (IF fanOut
                               THEN Occurrences(InstTable[i].ops, V) ELSE 0)
                 /\ fanOut => (V \notin Deps /\ V \in Deps')]_vars
  /\ [][Deps \subseteq Deps']_vars

\* a stack allocation that is a member, with users that are not yet, is on
\* top of Worklist again: the next iteration must not push its users
C19_Witness ==
  /\ pc = "loop"
  /\ Worklist # << >>
  /\ LET V == Worklist[Len(Worklist)]
     IN  /\ V \in Deps
         /\ InstTable[V.id].kind = "alloca"
         /\ ~(InstUsers(V) \subseteq Deps)
  /\ \E D \in Deps : D \in Range(Worklist) /\ InstOperands(D) # {}

(***************************************************************************)
(* C20.  Loop invariant of the closure: at every iteration boundary of     *)
(* reachFixpoint each instruction operand of a member of Deps is in Deps   *)
(* or in Worklist, each instruction user of a stack allocation that is a   *)
(* member is in Deps or in Worklist, and every control-frontier seed is in *)
(* Deps or in Worklist.                                                    *)
(***************************************************************************)
C20_LoopInvariant ==
  pc = "loop" =>
     LET known == Deps \cup Range(Worklist)
     IN  /\ \A V \in Deps :
               /\ InstOperands(V) \subseteq known
               /\ InstTable[V.id].kind = "alloca" => InstUsers(V) \subseteq known
         /\ FrontierSeeds \subseteq known

\* an iteration boundary at which an operand of a member and a user of a
\* member stack allocation are pending only, and a seed is still in Worklist
C20_Witness ==
  /\ pc = "loop"
  /\ \E V \in Deps : \E op \in InstOperands(V) :
        op \notin Deps /\ op \in Range(Worklist)
  /\ \E A \in Deps : \E U \in InstUsers(A) :
        /\ InstTable[A.id].kind = "alloca"
        /\ U \notin Deps
        /\ U \in Range(Worklist)
  /\ FrontierSeeds \cap Range(Worklist) # {}

============================================================================
